---- MODULE Spec2Model ----
(***************************************************************************)
(* Model of the HTTP entry point of the model proxy                        *)
(* (internal/modelproxy/handler.go): Handler.ServeHTTP and the recursive   *)
(* retry of Handler.proxyHTTP.                                             *)
(*                                                                         *)
(* Every inbound request is a process.  Its position (pc) is the blocking  *)
(* call it is in: LookupModel, ScaleAtLeastOneReplica, AwaitBestAddress or *)
(* the backend round trip of proxy.ServeHTTP.  proxyHTTP calls itself from *)
(* its ErrorHandler, so the frames of proxyHTTP that hold a deferred       *)
(* decrementInflight form a stack.                                         *)
(***************************************************************************)
EXTENDS Integers, Sequences, FiniteSets, TLC

\* ------------------------------------------------------------------ bounds
NumReqs == 2            \* inbound requests served concurrently (SpecConc)
MaxRetriesBound == 3    \* h.maxRetries ranges over 0..MaxRetriesBound

NumMsgs == 2            \* messages the requests subscription delivers
MaxHandlersBound == 2   \* Messenger.MaxHandlers ranges over 1..MaxHandlersBound
MaxRecvErrors == 1      \* errors of Receive in SpecMsg
NumCallers == 2         \* concurrent callers of getBestAddr on one group

Reqs == 1..NumReqs
Msgs == 1..NumMsgs
Callers == 1..NumCallers

\* ------------------------------------------------------- program constants
StatusOK == 200
StatusBadRequest == 400
StatusNotFound == 404
StatusInternalServerError == 500
StatusBadGateway == 502
StatusServiceUnavailable == 503
StatusGatewayTimeout == 504

\* handler.go:268
maxRestartAttempts == 20

\* handler.go:49-54
defaultRetryCodes ==
    {StatusInternalServerError, StatusBadGateway,
     StatusServiceUnavailable, StatusGatewayTimeout}

\* ------------------------------------------------------ environment inputs
\* Status codes a backend answers with.
BackendCodes == {StatusOK, StatusBadRequest, StatusInternalServerError,
                 StatusServiceUnavailable}
\* Backend addresses the load balancer can hand out.
Addrs == {"10.0.0.1:8000", "10.0.0.2:8000"}
\* Models named by request bodies; BadBody is a body that does not parse.
Models == {"model1", "model2"}
BadBody == "{}"
\* Values of the retryCodes argument of NewHandler: nil, or a map.
RetryCodeConfigs ==
    { [isNil |-> TRUE,  codes |-> {}],
      [isNil |-> FALSE, codes |-> {}],
      [isNil |-> FALSE, codes |-> {StatusServiceUnavailable}] }
\* Errors AwaitBestAddress can return.
AwaitErrs == {"Canceled", "DeadlineExceeded", "other"}
\* Outcomes of LookupModel.
LookupOutcomes == {"err", "missing", "found"}

\* What a message of the requests subscription can hold: an envelope that
\* is not JSON, an envelope whose body has no usable model, a good request.
MsgKinds == {"badEnvelope", "badBody", "good"}
\* Status codes the backend answers a message's request with.
MsgBackendCodes == {StatusOK, StatusInternalServerError}

\* Snapshots reconcileEndpoints is called with: name -> address.
NoEndpoints == [name \in {} |-> ""]
Snapshots ==
    { NoEndpoints,
      [name \in {"p1"} |-> "10.0.0.1:8000"],
      [name \in {"p2"} |-> "10.0.0.2:8000"] }
EndpointNames == UNION {DOMAIN snapshot : snapshot \in Snapshots}

VARIABLES
    maxRetries,       \* Handler.maxRetries
    retryCodes,       \* Handler.retryCodes
    endpoints,        \* addresses the load balancer hands out
    backendCodes,     \* status codes the backend answers with
    body,             \* body[r]: what the inbound request names (or BadBody)
    ctxDone,          \* ctxDone[r]: r.Context().Err() != nil
    pc,               \* pc[r]: where request r is
    attempt,          \* pr.attempt
    status,           \* pr.status
    stack,            \* frames of proxyHTTP that deferred decrementInflight
    cbCalls,          \* cbCalls[r][i]: calls of the i-th completion callback
    responses,        \* responses written to the client's ResponseWriter
    gauge,            \* InferenceRequestsActive{model, type=http}
    lookupCalls,      \* calls of LookupModel
    scaleCalls,       \* calls of ScaleAtLeastOneReplica
    awaitCalls,       \* calls of AwaitBestAddress
    backendRequests,  \* calls of proxy.ServeHTTP (requests to the backend)
    hist              \* what has been observed of the request so far

\* The messenger (package messenger of handler.go).
VARIABLES
    MaxHandlers,       \* Messenger.MaxHandlers
    nackable,          \* msg.Nackable() of the subscription's driver
    recvCtxDone,       \* the ctx of Start is cancelled
    startPc,           \* where Start is
    startErr,          \* what Start returned
    restartAttempt,    \* restartAttempt of Start
    sem,               \* number of elements in the channel sem
    n,                 \* n of the drain loop of Start
    msg,               \* msg of Start: the message received, not yet dispatched
    received,          \* number of messages Receive has returned
    recvErrsLeft,      \* errors Receive will still return (not Canceled)
    handlers,          \* handlers[m]: the handleRequest goroutine of message m
    consecutiveErrors, \* Messenger.consecutiveErrors
    crashed            \* a goroutine panicked: the process is gone

msgVars == <<MaxHandlers, nackable, recvCtxDone, startPc, startErr,
             restartAttempt, sem, n, msg, received, recvErrsLeft, handlers,
             consecutiveErrors, crashed>>

\* One endpoint group of the load balancer (package loadbalancer).
VARIABLES
    groupEndpoints,    \* the group's mapping name -> endpoint address
    inflight,          \* the group's inflight counter
    callers            \* callers[c]: a call of getBestAddr and its result

grpVars == <<groupEndpoints, inflight, callers>>

httpVars == <<maxRetries, retryCodes, endpoints, backendCodes, body, ctxDone,
              pc, attempt, status, stack, cbCalls, responses, gauge,
              lookupCalls, scaleCalls, awaitCalls, backendRequests, hist>>

vars == <<httpVars, msgVars, grpVars>>

\* What no step of the HTTP handler changes: its configuration, the
\* messenger and the endpoint group.
cfgVars == <<maxRetries, retryCodes, endpoints, backendCodes, body, msgVars,
             grpVars>>

\* ------------------------------------------------------------- helpers

\* Handler.isRetryCode, handler.go:172-181
isRetryCode(code) ==
    IF ~retryCodes.isNil
    THEN code \in retryCodes.codes
    ELSE code \in defaultRetryCodes

\* proxyRequest.sendErrorResponse: writes an error envelope with the status.
sendErrorResponse(w, code) ==
    Append(w, [kind |-> "envelope", code |-> code])

\* httputil.ReverseProxy copying the backend's response to the client.
passThrough(w, code) ==
    Append(w, [kind |-> "backend", code |-> code])

NoMark == [set |-> FALSE, calls |-> 0, reqs |-> 0]
Mark(r) == [set |-> TRUE, calls |-> awaitCalls[r], reqs |-> backendRequests[r]]

InitHist ==
    [ onlyRetryable |-> TRUE,   \* every backend outcome was a retryable code
      onlyTransport |-> TRUE,   \* every backend outcome was a transport error
      awaitFailed   |-> FALSE,  \* an AwaitBestAddress call returned an error
      last          |-> "none", \* how the latest attempt ended
      lookup        |-> "none", \* what LookupModel returned
      scale         |-> "none", \* what ScaleAtLeastOneReplica returned
      firstAddr     |-> "",     \* address of the first attempt
      nonRetry      |-> NoMark, \* counters when a non-retryable code came
      cancelEnd     |-> NoMark ]\* counters when an attempt ended, ctx done

\* ---------------------------------------------------------------- Init

InitCommon ==
    /\ ctxDone = [r \in Reqs |-> FALSE]
    /\ attempt = [r \in Reqs |-> 0]
    /\ status = [r \in Reqs |-> 0]
    /\ stack = [r \in Reqs |-> <<>>]
    /\ cbCalls = [r \in Reqs |-> <<>>]
    /\ responses = [r \in Reqs |-> <<>>]
    /\ gauge = [m \in Models |-> 0]
    /\ lookupCalls = [r \in Reqs |-> 0]
    /\ scaleCalls = [r \in Reqs |-> 0]
    /\ awaitCalls = [r \in Reqs |-> 0]
    /\ backendRequests = [r \in Reqs |-> 0]
    /\ hist = [r \in Reqs |-> InitHist]

\* A handleRequest goroutine that does not exist yet.
NoHandler ==
    [ pc      |-> "queued",  \* where the goroutine is
      kind    |-> "none",    \* what the message holds
      ctx     |-> "none",    \* the ctx handleRequest was given
      ctxErr  |-> FALSE,     \* a call of the handler failed on its ctx
      atStop  |-> FALSE,     \* it awaited a host when Start's ctx was cancelled
      held    |-> FALSE,     \* completeFunc is deferred
      status  |-> 0,         \* statusCode given to sendResponse
      valid   |-> TRUE,      \* body given to sendResponse is valid JSON
      backend |-> FALSE,     \* the status is the backend's own
      publish |-> "none",    \* result of m.responses.Send
      acks    |-> 0,         \* calls of msg.Ack
      nacks   |-> 0,         \* calls of msg.Nack
      incs    |-> 0 ]        \* calls of addConsecutiveError for the message

MsgCommon ==
    /\ received = 0
    /\ recvCtxDone = FALSE
    /\ startErr = "none"
    /\ restartAttempt = 0
    /\ sem = 0
    /\ n = 0
    /\ msg = 0
    /\ handlers = [m \in Msgs |-> NoHandler]
    /\ consecutiveErrors = 0
    /\ crashed = FALSE

\* No messenger is started.
MsgOff ==
    /\ MaxHandlers = 1
    /\ recvErrsLeft = 0
    /\ nackable = FALSE
    /\ startPc = "off"
    /\ MsgCommon

\* A caller that has not called getBestAddr yet.
NoCall ==
    [ pc        |-> "idle",      \* where the call is
      ctxDone   |-> FALSE,       \* the caller's ctx is cancelled
      addr      |-> "",          \* address returned
      err       |-> FALSE,       \* an error was returned
      seen      |-> NoEndpoints, \* the mapping the address was selected from
      waited    |-> FALSE,       \* it found the mapping empty and waited
      reblocked |-> FALSE ]      \* it was woken and went back to waiting

\* newEndpointGroup(): an empty group.
GrpCommon ==
    /\ groupEndpoints = NoEndpoints
    /\ inflight = 0

\* Nobody calls the group.
GrpOff ==
    /\ GrpCommon
    /\ callers = [c \in Callers |-> [NoCall EXCEPT !.pc = "absent"]]

\* No HTTP request arrives.
HTTPOff ==
    /\ maxRetries = 0
    /\ retryCodes = [isNil |-> TRUE, codes |-> {}]
    /\ endpoints = Addrs
    /\ backendCodes = BackendCodes
    /\ body = [r \in Reqs |-> BadBody]
    /\ pc = [r \in Reqs |-> "absent"]
    /\ InitCommon

\* One inbound request, every handler configuration.
Init ==
    /\ maxRetries \in 0..MaxRetriesBound
    /\ retryCodes \in RetryCodeConfigs
    /\ endpoints = Addrs
    /\ backendCodes = BackendCodes
    /\ body \in [Reqs -> Models \cup {BadBody}]
    /\ \A r \in Reqs : r > 1 => body[r] = BadBody
    /\ pc = [r \in Reqs |-> IF r = 1 THEN "start" ELSE "absent"]
    /\ InitCommon
    /\ MsgOff
    /\ GrpOff

\* NumReqs concurrent inbound requests, NewHandler(.., 1, nil), one backend
\* that answers 200 or 500 (or drops the connection).
InitConc ==
    /\ maxRetries = 1
    /\ retryCodes = [isNil |-> TRUE, codes |-> {}]
    /\ endpoints = {"10.0.0.1:8000"}
    /\ backendCodes = {StatusOK, StatusInternalServerError}
    /\ body \in [Reqs -> Models \cup {BadBody}]
    /\ \A r \in Reqs : body[r] \in {BadBody, IF r % 2 = 1 THEN "model1" ELSE "model2"}
    /\ pc = [r \in Reqs |-> "start"]
    /\ InitCommon
    /\ MsgOff
    /\ GrpOff

\* ------------------------------------------------------------- actions

\* The client goes away or the request's deadline passes.
CancelContext(r) ==
    /\ pc[r] \notin {"absent", "done"}
    /\ ~ctxDone[r]
    /\ ctxDone' = [ctxDone EXCEPT ![r] = TRUE]
    /\ UNCHANGED <<cfgVars, pc, attempt, status, stack, cbCalls, responses,
                   gauge, lookupCalls, scaleCalls, awaitCalls,
                   backendRequests, hist>>

\* ServeHTTP up to the call of LookupModel, handler.go:56-78
Parse(r) ==
    /\ pc[r] = "start"
    /\ IF body[r] = BadBody
       THEN /\ responses' = [responses EXCEPT
                   ![r] = sendErrorResponse(@, StatusBadRequest)]
            /\ pc' = [pc EXCEPT ![r] = "done"]
            /\ UNCHANGED gauge
       ELSE /\ gauge' = [gauge EXCEPT ![body[r]] = @ + 1]
            /\ pc' = [pc EXCEPT ![r] = "lookup"]
            /\ UNCHANGED responses
    /\ UNCHANGED <<cfgVars, ctxDone, attempt, status, stack, cbCalls,
                   lookupCalls, scaleCalls, awaitCalls, backendRequests, hist>>

\* LookupModel with the return after the 404 missing: ServeHTTP goes on to
\* ScaleAtLeastOneReplica.
LookupModel_NoReturn(r, out) ==
    /\ pc[r] = "lookup"
    /\ lookupCalls' = [lookupCalls EXCEPT ![r] = @ + 1]
    /\ CASE out = "err" ->
              /\ responses' = [responses EXCEPT
                     ![r] = sendErrorResponse(@, StatusInternalServerError)]
              /\ gauge' = [gauge EXCEPT ![body[r]] = @ - 1]
              /\ pc' = [pc EXCEPT ![r] = "done"]
         [] out = "missing" ->
              /\ responses' = [responses EXCEPT
                     ![r] = sendErrorResponse(@, StatusNotFound)]
              /\ pc' = [pc EXCEPT ![r] = "scale"]
              /\ UNCHANGED gauge
         [] OTHER ->
              /\ pc' = [pc EXCEPT ![r] = "scale"]
              /\ UNCHANGED <<responses, gauge>>
    /\ hist' = [hist EXCEPT ![r].lookup = out]
    /\ UNCHANGED <<cfgVars, ctxDone, attempt, status, stack, cbCalls,
                   scaleCalls, awaitCalls, backendRequests>>

\* LookupModel returns, handler.go:78-89
LookupModel(r, out) ==
    /\ pc[r] = "lookup"
    /\ lookupCalls' = [lookupCalls EXCEPT ![r] = @ + 1]
    /\ CASE out = "err" ->
              /\ responses' = [responses EXCEPT
                     ![r] = sendErrorResponse(@, StatusInternalServerError)]
              /\ gauge' = [gauge EXCEPT ![body[r]] = @ - 1]
              /\ pc' = [pc EXCEPT ![r] = "done"]
         [] out = "missing" ->
              /\ responses' = [responses EXCEPT
                     ![r] = sendErrorResponse(@, StatusNotFound)]
              /\ gauge' = [gauge EXCEPT ![body[r]] = @ - 1]
              /\ pc' = [pc EXCEPT ![r] = "done"]
         [] OTHER ->
              /\ pc' = [pc EXCEPT ![r] = "scale"]
              /\ UNCHANGED <<responses, gauge>>
    /\ hist' = [hist EXCEPT ![r].lookup = out]
    /\ UNCHANGED <<cfgVars, ctxDone, attempt, status, stack, cbCalls,
                   scaleCalls, awaitCalls, backendRequests>>

\* ScaleAtLeastOneReplica returns, handler.go:89-94
ScaleAtLeastOneReplica(r, ok) ==
    /\ pc[r] = "scale"
    /\ scaleCalls' = [scaleCalls EXCEPT ![r] = @ + 1]
    /\ IF ~ok
       THEN /\ responses' = [responses EXCEPT
                   ![r] = sendErrorResponse(@, StatusInternalServerError)]
            /\ gauge' = [gauge EXCEPT ![body[r]] = @ - 1]
            /\ pc' = [pc EXCEPT ![r] = "done"]
       ELSE /\ pc' = [pc EXCEPT ![r] = "await"]
            /\ UNCHANGED <<responses, gauge>>
    /\ hist' = [hist EXCEPT ![r].scale = IF ok THEN "ok" ELSE "err"]
    /\ UNCHANGED <<cfgVars, ctxDone, attempt, status, stack, cbCalls,
                   lookupCalls, awaitCalls, backendRequests>>

\* AwaitBestAddressErr with the return after the error response missing: the
\* request is still handed to proxy.ServeHTTP.
AwaitBestAddressErr_FallThrough(r, err) ==
    /\ pc[r] = "await"
    /\ awaitCalls' = [awaitCalls EXCEPT ![r] = @ + 1]
    /\ responses' = [responses EXCEPT ![r] =
           IF err = "Canceled"
           THEN sendErrorResponse(@, StatusInternalServerError)
           ELSE sendErrorResponse(@, StatusGatewayTimeout)]
    /\ hist' = [hist EXCEPT ![r].awaitFailed = TRUE, ![r].last = "awaitErr"]
    /\ backendRequests' = [backendRequests EXCEPT ![r] = @ + 1]
    /\ pc' = [pc EXCEPT ![r] = "proxy"]
    /\ UNCHANGED <<cfgVars, ctxDone, attempt, status, stack, cbCalls, gauge,
                   lookupCalls, scaleCalls>>

\* proxyHTTP: AwaitBestAddress returns an error, handler.go:104-121
AwaitBestAddressErr(r, err) ==
    /\ pc[r] = "await"
    /\ awaitCalls' = [awaitCalls EXCEPT ![r] = @ + 1]
    /\ responses' = [responses EXCEPT ![r] =
           IF err = "Canceled"
           THEN sendErrorResponse(@, StatusInternalServerError)
           ELSE sendErrorResponse(@, StatusGatewayTimeout)]
    /\ hist' = [hist EXCEPT ![r].awaitFailed = TRUE, ![r].last = "awaitErr"]
    /\ pc' = [pc EXCEPT ![r] = "unwind"]
    /\ UNCHANGED <<cfgVars, ctxDone, attempt, status, stack, cbCalls, gauge,
                   lookupCalls, scaleCalls, backendRequests>>

\* AwaitBestAddressOk with decrementInflight() called at once instead of
\* deferred.
AwaitBestAddressOk_NoDefer(r, addr) ==
    /\ pc[r] = "await"
    /\ awaitCalls' = [awaitCalls EXCEPT ![r] = @ + 1]
    /\ cbCalls' = [cbCalls EXCEPT ![r] = Append(@, 1)]
    /\ backendRequests' = [backendRequests EXCEPT ![r] = @ + 1]
    /\ hist' = [hist EXCEPT ![r].firstAddr =
           IF awaitCalls[r] = 0 THEN addr ELSE @]
    /\ pc' = [pc EXCEPT ![r] = "proxy"]
    /\ UNCHANGED <<cfgVars, ctxDone, attempt, status, stack, responses, gauge,
                   lookupCalls, scaleCalls>>

\* proxyHTTP: AwaitBestAddress returns an address; decrementInflight is
\* deferred and the request is handed to proxy.ServeHTTP,
\* handler.go:104-109,123-134,166-167
AwaitBestAddressOk(r, addr) ==
    /\ pc[r] = "await"
    /\ awaitCalls' = [awaitCalls EXCEPT ![r] = @ + 1]
    /\ cbCalls' = [cbCalls EXCEPT ![r] = Append(@, 0)]
    /\ stack' = [stack EXCEPT ![r] =
           Append(@, [addr |-> addr, cb |-> Len(cbCalls[r]) + 1])]
    /\ backendRequests' = [backendRequests EXCEPT ![r] = @ + 1]
    /\ hist' = [hist EXCEPT ![r].firstAddr =
           IF awaitCalls[r] = 0 THEN addr ELSE @]
    /\ pc' = [pc EXCEPT ![r] = "proxy"]
    /\ UNCHANGED <<cfgVars, ctxDone, attempt, status, responses, gauge,
                   lookupCalls, scaleCalls>>

\* ErrorHandler without the bound on pr.attempt.
ErrorHandler_NoBound(r, isErrRetry) ==
    IF ~ctxDone[r]
    THEN /\ attempt' = [attempt EXCEPT ![r] = @ + 1]
         /\ pc' = [pc EXCEPT ![r] = "await"]
         /\ UNCHANGED responses
    ELSE /\ responses' = [responses EXCEPT ![r] =
                IF ~isErrRetry
                THEN sendErrorResponse(@, StatusBadGateway)
                ELSE @]
         /\ pc' = [pc EXCEPT ![r] = "unwind"]
         /\ UNCHANGED attempt

\* ErrorHandler without the errors.Is(err, ErrRetry) test: it answers 502
\* whenever it does not retry.
ErrorHandler_Always502(r, isErrRetry) ==
    IF ~ctxDone[r] /\ attempt[r] < maxRetries
    THEN /\ attempt' = [attempt EXCEPT ![r] = @ + 1]
         /\ pc' = [pc EXCEPT ![r] = "await"]
         /\ UNCHANGED responses
    ELSE /\ responses' = [responses EXCEPT ![r] =
                sendErrorResponse(@, StatusBadGateway)]
         /\ pc' = [pc EXCEPT ![r] = "unwind"]
         /\ UNCHANGED attempt

\* ErrorHandler without pr.attempt++.
ErrorHandler_NoIncrement(r, isErrRetry) ==
    IF ~ctxDone[r] /\ attempt[r] < maxRetries
    THEN /\ pc' = [pc EXCEPT ![r] = "await"]
         /\ UNCHANGED <<attempt, responses>>
    ELSE /\ responses' = [responses EXCEPT ![r] =
                IF ~isErrRetry
                THEN sendErrorResponse(@, StatusBadGateway)
                ELSE @]
         /\ pc' = [pc EXCEPT ![r] = "unwind"]
         /\ UNCHANGED attempt

\* ErrorHandler without the r.Context().Err() == nil test.
ErrorHandler_IgnoreContext(r, isErrRetry) ==
    IF attempt[r] < maxRetries
    THEN /\ attempt' = [attempt EXCEPT ![r] = @ + 1]
         /\ pc' = [pc EXCEPT ![r] = "await"]
         /\ UNCHANGED responses
    ELSE /\ responses' = [responses EXCEPT ![r] =
                IF ~isErrRetry
                THEN sendErrorResponse(@, StatusBadGateway)
                ELSE @]
         /\ pc' = [pc EXCEPT ![r] = "unwind"]
         /\ UNCHANGED attempt

\* proxy.ErrorHandler, handler.go:149-164.  isErrRetry: errors.Is(err, ErrRetry)
ErrorHandler(r, isErrRetry) ==
    IF ~ctxDone[r] /\ attempt[r] < maxRetries
    THEN /\ attempt' = [attempt EXCEPT ![r] = @ + 1]
         /\ pc' = [pc EXCEPT ![r] = "await"]
         /\ UNCHANGED responses
    ELSE /\ responses' = [responses EXCEPT ![r] =
                IF ~isErrRetry
                THEN sendErrorResponse(@, StatusBadGateway)
                ELSE @]
         /\ pc' = [pc EXCEPT ![r] = "unwind"]
         /\ UNCHANGED attempt

\* ModifyResponse without the pr.attempt < h.maxRetries test.
BackendResponse_NoAttemptTest(r, code) ==
    /\ pc[r] = "proxy"
    /\ status' = [status EXCEPT ![r] = code]
    /\ IF isRetryCode(code)
       THEN ErrorHandler(r, TRUE)
       ELSE /\ responses' = [responses EXCEPT ![r] = passThrough(@, code)]
            /\ pc' = [pc EXCEPT ![r] = "unwind"]
            /\ UNCHANGED attempt
    /\ hist' = [hist EXCEPT
           ![r].onlyRetryable = @ /\ isRetryCode(code),
           ![r].onlyTransport = FALSE,
           ![r].last = "response",
           ![r].nonRetry = IF ~isRetryCode(code) THEN Mark(r) ELSE @,
           ![r].cancelEnd = IF ctxDone[r] /\ ~@.set THEN Mark(r) ELSE @]
    /\ UNCHANGED <<cfgVars, ctxDone, stack, cbCalls, gauge, lookupCalls,
                   scaleCalls, awaitCalls, backendRequests>>

\* ModifyResponse without the isRetryCode test.
BackendResponse_AnyCode(r, code) ==
    /\ pc[r] = "proxy"
    /\ status' = [status EXCEPT ![r] = code]
    /\ IF attempt[r] < maxRetries
       THEN ErrorHandler(r, TRUE)
       ELSE /\ responses' = [responses EXCEPT ![r] = passThrough(@, code)]
            /\ pc' = [pc EXCEPT ![r] = "unwind"]
            /\ UNCHANGED attempt
    /\ hist' = [hist EXCEPT
           ![r].onlyRetryable = @ /\ isRetryCode(code),
           ![r].onlyTransport = FALSE,
           ![r].last = "response",
           ![r].nonRetry = IF ~isRetryCode(code) THEN Mark(r) ELSE @,
           ![r].cancelEnd = IF ctxDone[r] /\ ~@.set THEN Mark(r) ELSE @]
    /\ UNCHANGED <<cfgVars, ctxDone, stack, cbCalls, gauge, lookupCalls,
                   scaleCalls, awaitCalls, backendRequests>>

\* The backend answers with a status code: proxy.ModifyResponse, then either
\* the ErrorHandler or the response is copied to the client,
\* handler.go:136-147
BackendResponse(r, code) ==
    /\ pc[r] = "proxy"
    /\ status' = [status EXCEPT ![r] = code]
    /\ IF isRetryCode(code) /\ attempt[r] < maxRetries
       THEN ErrorHandler(r, TRUE)
       ELSE /\ responses' = [responses EXCEPT ![r] = passThrough(@, code)]
            /\ pc' = [pc EXCEPT ![r] = "unwind"]
            /\ UNCHANGED attempt
    /\ hist' = [hist EXCEPT
           ![r].onlyRetryable = @ /\ isRetryCode(code),
           ![r].onlyTransport = FALSE,
           ![r].last = "response",
           ![r].nonRetry = IF ~isRetryCode(code) THEN Mark(r) ELSE @,
           ![r].cancelEnd = IF ctxDone[r] /\ ~@.set THEN Mark(r) ELSE @]
    /\ UNCHANGED <<cfgVars, ctxDone, stack, cbCalls, gauge, lookupCalls,
                   scaleCalls, awaitCalls, backendRequests>>

\* The round trip fails without a response: the transport's error goes to
\* the ErrorHandler, handler.go:149-164
BackendTransportError(r) ==
    /\ pc[r] = "proxy"
    /\ ErrorHandler(r, FALSE)
    /\ hist' = [hist EXCEPT
           ![r].onlyRetryable = FALSE,
           ![r].last = "transport",
           ![r].cancelEnd = IF ctxDone[r] /\ ~@.set THEN Mark(r) ELSE @]
    /\ UNCHANGED <<cfgVars, ctxDone, status, stack, cbCalls, gauge,
                   lookupCalls, scaleCalls, awaitCalls, backendRequests>>

\* A frame of proxyHTTP returns: its deferred decrementInflight runs,
\* handler.go:123
DecrementInflight(r) ==
    /\ pc[r] = "unwind"
    /\ stack[r] # <<>>
    /\ LET top == stack[r][Len(stack[r])]
       IN  /\ cbCalls' = [cbCalls EXCEPT ![r][top.cb] = @ + 1]
           /\ stack' = [stack EXCEPT ![r] = SubSeq(@, 1, Len(@) - 1)]
    /\ UNCHANGED <<cfgVars, ctxDone, pc, attempt, status, responses, gauge,
                   lookupCalls, scaleCalls, awaitCalls, backendRequests, hist>>

\* ServeHTTP returning from proxyHTTP without the deferred Add(-1).
ReturnServeHTTP_NoAdd(r) ==
    /\ pc[r] = "unwind"
    /\ stack[r] = <<>>
    /\ pc' = [pc EXCEPT ![r] = "done"]
    /\ UNCHANGED <<cfgVars, ctxDone, attempt, status, stack, cbCalls,
                   responses, gauge, lookupCalls, scaleCalls, awaitCalls,
                   backendRequests, hist>>

\* The outermost proxyHTTP has returned: ServeHTTP returns and its deferred
\* InferenceRequestsActive.Add(-1) runs, handler.go:76,94-95
ReturnServeHTTP(r) ==
    /\ pc[r] = "unwind"
    /\ stack[r] = <<>>
    /\ gauge' = [gauge EXCEPT ![body[r]] = @ - 1]
    /\ pc' = [pc EXCEPT ![r] = "done"]
    /\ UNCHANGED <<cfgVars, ctxDone, attempt, status, stack, cbCalls,
                   responses, lookupCalls, scaleCalls, awaitCalls,
                   backendRequests, hist>>

Next ==
    \E r \in Reqs :
        \/ CancelContext(r)
        \/ Parse(r)
        \/ \E out \in LookupOutcomes : LookupModel(r, out)
        \/ \E ok \in BOOLEAN : ScaleAtLeastOneReplica(r, ok)
        \/ \E err \in AwaitErrs : AwaitBestAddressErr(r, err)
        \/ \E addr \in endpoints : AwaitBestAddressOk(r, addr)
        \/ \E code \in backendCodes : BackendResponse(r, code)
        \/ BackendTransportError(r)
        \/ DecrementInflight(r)
        \/ ReturnServeHTTP(r)

Spec == Init /\ [][Next]_vars

SpecConc == InitConc /\ [][Next]_vars

TypeOK ==
    /\ maxRetries \in 0..MaxRetriesBound
    /\ retryCodes \in RetryCodeConfigs
    /\ endpoints \subseteq Addrs
    /\ backendCodes \subseteq BackendCodes
    /\ \A r \in Reqs :
        /\ pc[r] \in {"absent", "start", "lookup", "scale", "await", "proxy",
                      "unwind", "done"}
        /\ attempt[r] \in Nat
        /\ ctxDone[r] \in BOOLEAN
        /\ Len(cbCalls[r]) <= awaitCalls[r]

\* ----------------------------------------------------------- messenger

\* Outcomes of a call the handler makes with its ctx.
CallOutcomes == {"ok", "err", "ctxErr"}

\* The ctx handleRequest was given is done.
HandlerCtxDone(m) == handlers[m].ctx = "receive" /\ recvCtxDone

\* A call made with the handler's ctx can fail on the ctx only if it is done.
CallCanEnd(m, out) == out = "ctxErr" => HandlerCtxDone(m)

Running(m) ==
    handlers[m].pc \in {"parse", "lookup", "await", "backend", "send"}

\* Messenger.jsonError followed by the call of sendResponse with its result:
\* the handler is about to publish an error body with this status,
\* handler.go:567-588
jsonError(h, statusCode) ==
    [h EXCEPT !.incs = @ + 1, !.status = statusCode, !.valid = TRUE,
              !.backend = FALSE, !.pc = "send"]

\* The receive context of Start is cancelled.
CancelReceive ==
    /\ startPc \in {"receive", "acquire"}
    /\ ~crashed
    /\ ~recvCtxDone
    /\ recvCtxDone' = TRUE
    /\ handlers' = [m \in Msgs |->
           [handlers[m] EXCEPT !.atStop = handlers[m].pc = "await"]]
    /\ UNCHANGED <<httpVars, grpVars, MaxHandlers, nackable, startPc, startErr,
                   restartAttempt, sem, n, msg, received, recvErrsLeft,
                   consecutiveErrors, crashed>>

\* Start: m.requests.Receive returns a message, handler.go:274,310-314
ReceiveMessage(kind) ==
    /\ startPc = "receive"
    /\ ~crashed
    /\ received < NumMsgs
    /\ received' = received + 1
    /\ msg' = received + 1
    /\ handlers' = [handlers EXCEPT ![received + 1].pc = "received",
                                    ![received + 1].kind = kind]
    /\ restartAttempt' = 0
    /\ startPc' = "acquire"
    /\ UNCHANGED <<httpVars, grpVars, MaxHandlers, nackable, recvCtxDone, startErr,
                   sem, n, recvErrsLeft, consecutiveErrors, crashed>>

\* Start: Receive returns context.Canceled, handler.go:274-278
ReceiveCanceled ==
    /\ startPc = "receive"
    /\ ~crashed
    /\ recvCtxDone
    /\ startPc' = "returned"
    /\ startErr' = "Canceled"
    /\ UNCHANGED <<httpVars, grpVars, MaxHandlers, nackable, recvCtxDone,
                   restartAttempt, sem, n, msg, received, recvErrsLeft, handlers,
                   consecutiveErrors, crashed>>

\* Start: Receive returns another error; the subscription is recreated
\* (subOk: OpenSubscription succeeds) or Start gives up, handler.go:274-309
ReceiveError(subOk) ==
    /\ startPc = "receive"
    /\ ~crashed
    /\ recvErrsLeft > 0
    /\ recvErrsLeft' = recvErrsLeft - 1
    /\ IF restartAttempt > maxRestartAttempts
       THEN /\ startPc' = "returned"
            /\ startErr' = "err"
            /\ UNCHANGED restartAttempt
       ELSE IF ~subOk
       THEN /\ startPc' = "returned"
            /\ startErr' = "subErr"
            /\ UNCHANGED restartAttempt
       ELSE /\ restartAttempt' = restartAttempt + 1
            /\ UNCHANGED <<startPc, startErr>>
    /\ UNCHANGED <<httpVars, grpVars, MaxHandlers, nackable, recvCtxDone, sem, n, msg,
                   received, handlers, consecutiveErrors, crashed>>

\* Dispatch without the semaphore: the goroutine is started at once.
Dispatch_NoSemaphore ==
    /\ startPc = "acquire"
    /\ ~crashed
    /\ sem' = sem + 1
    /\ handlers' = [handlers EXCEPT ![msg].pc = "parse",
                                    ![msg].ctx = "background"]
    /\ msg' = 0
    /\ startPc' = "receive"
    /\ UNCHANGED <<httpVars, grpVars, MaxHandlers, nackable, recvCtxDone, startErr,
                   restartAttempt, n, received, recvErrsLeft,
                   consecutiveErrors, crashed>>

\* Dispatch handing the receive ctx to handleRequest.
Dispatch_ReceiveCtx ==
    /\ startPc = "acquire"
    /\ ~crashed
    /\ sem < MaxHandlers
    /\ sem' = sem + 1
    /\ handlers' = [handlers EXCEPT ![msg].pc = "parse",
                                    ![msg].ctx = "receive"]
    /\ msg' = 0
    /\ startPc' = "receive"
    /\ UNCHANGED <<httpVars, grpVars, MaxHandlers, nackable, recvCtxDone, startErr,
                   restartAttempt, n, received, recvErrsLeft,
                   consecutiveErrors, crashed>>

\* Start: the select takes a slot of sem and the handler goroutine is started
\* with context.Background(), handler.go:319-342
Dispatch ==
    /\ startPc = "acquire"
    /\ ~crashed
    /\ sem < MaxHandlers
    /\ sem' = sem + 1
    /\ handlers' = [handlers EXCEPT ![msg].pc = "parse",
                                    ![msg].ctx = "background"]
    /\ msg' = 0
    /\ startPc' = "receive"
    /\ UNCHANGED <<httpVars, grpVars, MaxHandlers, nackable, recvCtxDone, startErr,
                   restartAttempt, n, received, recvErrsLeft,
                   consecutiveErrors, crashed>>

\* Start: the select sees ctx.Done() and leaves the receive loop with the
\* message it holds, handler.go:319-323
StopWaiting ==
    /\ startPc = "acquire"
    /\ ~crashed
    /\ recvCtxDone
    /\ handlers' = [handlers EXCEPT ![msg].pc = "dropped"]
    /\ startPc' = "drain"
    /\ UNCHANGED <<httpVars, grpVars, MaxHandlers, nackable, recvCtxDone, startErr,
                   restartAttempt, sem, n, msg, received, recvErrsLeft, consecutiveErrors,
                   crashed>>

\* Start: the drain loop takes one more slot of sem and returns nil after
\* the last one, handler.go:345-351
Drain ==
    /\ startPc = "drain"
    /\ ~crashed
    /\ n < MaxHandlers
    /\ sem < MaxHandlers
    /\ sem' = sem + 1
    /\ n' = n + 1
    /\ IF n + 1 = MaxHandlers
       THEN startPc' = "returned" /\ startErr' = "nil"
       ELSE UNCHANGED <<startPc, startErr>>
    /\ UNCHANGED <<httpVars, grpVars, MaxHandlers, nackable, recvCtxDone,
                   restartAttempt, msg, received, recvErrsLeft, handlers, consecutiveErrors,
                   crashed>>

\* handleRequest: parseRequest.  A message that is not JSON gives an error
\* and a request; a body without a usable model gives an error and a nil
\* request, which sendResponse dereferences, handler.go:378-382,445-500,526
handleRequest_Parse(m) ==
    /\ handlers[m].pc = "parse"
    /\ ~crashed
    /\ CASE handlers[m].kind = "badEnvelope" ->
              /\ handlers' = [handlers EXCEPT
                     ![m] = jsonError(@, StatusBadRequest)]
              /\ consecutiveErrors' = consecutiveErrors + 1
              /\ UNCHANGED crashed
         [] handlers[m].kind = "badBody" ->
              /\ handlers' = [handlers EXCEPT
                     ![m] = [jsonError(@, StatusBadRequest)
                                EXCEPT !.pc = "panicked"]]
              /\ consecutiveErrors' = consecutiveErrors + 1
              /\ crashed' = TRUE
         [] OTHER ->
              /\ handlers' = [handlers EXCEPT ![m].pc = "lookup"]
              /\ UNCHANGED <<consecutiveErrors, crashed>>
    /\ UNCHANGED <<httpVars, grpVars, MaxHandlers, nackable, recvCtxDone, startPc,
                   startErr, restartAttempt, sem, n, msg, received, recvErrsLeft>>

\* handleRequest: LookupModel returns; ScaleAtLeastOneReplica follows and its
\* error is dropped, handler.go:391-406
handleRequest_Lookup(m, out) ==
    /\ handlers[m].pc = "lookup"
    /\ ~crashed
    /\ CASE out = "err" ->
              /\ handlers' = [handlers EXCEPT
                     ![m] = jsonError(@, StatusInternalServerError)]
              /\ consecutiveErrors' = consecutiveErrors + 1
         [] out = "missing" ->
              /\ handlers' = [handlers EXCEPT
                     ![m] = jsonError(@, StatusNotFound)]
              /\ consecutiveErrors' = consecutiveErrors + 1
         [] OTHER ->
              /\ handlers' = [handlers EXCEPT ![m].pc = "await"]
              /\ UNCHANGED consecutiveErrors
    /\ UNCHANGED <<httpVars, grpVars, MaxHandlers, nackable, recvCtxDone, startPc,
                   startErr, restartAttempt, sem, n, msg, received, recvErrsLeft, crashed>>

\* handleRequest: AwaitBestAddress returns, handler.go:408-419
handleRequest_Await(m, out) ==
    /\ handlers[m].pc = "await"
    /\ ~crashed
    /\ CallCanEnd(m, out)
    /\ IF out = "ok"
       THEN /\ handlers' = [handlers EXCEPT ![m].pc = "backend",
                                            ![m].held = TRUE]
            /\ UNCHANGED consecutiveErrors
       ELSE /\ handlers' = [handlers EXCEPT
                   ![m] = [jsonError(@, StatusBadGateway)
                              EXCEPT !.ctxErr = @ \/ out = "ctxErr"]]
            /\ consecutiveErrors' = consecutiveErrors + 1
    /\ UNCHANGED <<httpVars, grpVars, MaxHandlers, nackable, recvCtxDone, startPc,
                   startErr, restartAttempt, sem, n, msg, received, recvErrsLeft, crashed>>

\* handleRequest: sendBackendRequest returns an error, handler.go:421-425
handleRequest_BackendError(m, out) ==
    /\ handlers[m].pc = "backend"
    /\ ~crashed
    /\ out # "ok"
    /\ CallCanEnd(m, out)
    /\ handlers' = [handlers EXCEPT
           ![m] = [jsonError(@, StatusBadGateway)
                      EXCEPT !.ctxErr = @ \/ out = "ctxErr"]]
    /\ consecutiveErrors' = consecutiveErrors + 1
    /\ UNCHANGED <<httpVars, grpVars, MaxHandlers, nackable, recvCtxDone, startPc,
                   startErr, restartAttempt, sem, n, msg, received, recvErrsLeft, crashed>>

\* handleRequest: sendBackendRequest returns the backend's payload and status
\* code (isJSON: the payload is valid JSON), handler.go:421-427,502-523
handleRequest_BackendResponse(m, code, isJSON) ==
    /\ handlers[m].pc = "backend"
    /\ ~crashed
    /\ handlers' = [handlers EXCEPT ![m].pc = "send",
                                    ![m].status = code,
                                    ![m].valid = isJSON,
                                    ![m].backend = TRUE]
    /\ UNCHANGED <<httpVars, grpVars, MaxHandlers, nackable, recvCtxDone, startPc,
                   startErr, restartAttempt, sem, n, msg, received,
                   recvErrsLeft, consecutiveErrors, crashed>>

\* consecutiveErrors after sendResponse, handler.go:538-563
AfterSendResponse(h, out, errs) ==
    LET marshalled == IF h.valid THEN errs ELSE errs + 1
    IN  IF out # "ok" THEN marshalled + 1
        ELSE IF h.status < 300 THEN 0
        ELSE marshalled

\* sendResponse without the return after Nack: it goes on to Ack.
sendResponse_NoReturn(m, out) ==
    /\ handlers[m].pc = "send"
    /\ ~crashed
    /\ CallCanEnd(m, out)
    /\ consecutiveErrors' = AfterSendResponse(handlers[m], out, consecutiveErrors)
    /\ handlers' = [handlers EXCEPT
           ![m].incs = @ + (IF handlers[m].valid THEN 0 ELSE 1)
                         + (IF out # "ok" THEN 1 ELSE 0),
           ![m].publish = IF out = "ok" THEN "ok" ELSE "failed",
           ![m].acks = @ + 1,
           ![m].nacks = IF out # "ok" /\ nackable THEN @ + 1 ELSE @,
           ![m].ctxErr = @ \/ out = "ctxErr",
           ![m].held = FALSE,
           ![m].pc = "done"]
    /\ sem' = sem - 1
    /\ UNCHANGED <<httpVars, grpVars, MaxHandlers, nackable, recvCtxDone, startPc,
                   startErr, restartAttempt, n, msg, received, recvErrsLeft,
                   crashed>>

\* Messenger.sendResponse and the return of handleRequest and of its
\* goroutine, which run completeFunc and free the slot of sem,
\* handler.go:525-565,417,326
sendResponse(m, out) ==
    /\ handlers[m].pc = "send"
    /\ ~crashed
    /\ CallCanEnd(m, out)
    /\ consecutiveErrors' = AfterSendResponse(handlers[m], out, consecutiveErrors)
    /\ handlers' = [handlers EXCEPT
           ![m].incs = @ + (IF handlers[m].valid THEN 0 ELSE 1)
                         + (IF out # "ok" THEN 1 ELSE 0),
           ![m].publish = IF out = "ok" THEN "ok" ELSE "failed",
           ![m].acks = IF out = "ok" THEN @ + 1 ELSE @,
           ![m].nacks = IF out # "ok" /\ nackable THEN @ + 1 ELSE @,
           ![m].ctxErr = @ \/ out = "ctxErr",
           ![m].held = FALSE,
           ![m].pc = "done"]
    /\ sem' = sem - 1
    /\ UNCHANGED <<httpVars, grpVars, MaxHandlers, nackable, recvCtxDone, startPc,
                   startErr, restartAttempt, n, msg, received, recvErrsLeft, crashed>>

NextMsg ==
    \/ CancelReceive
    \/ \E kind \in MsgKinds : ReceiveMessage(kind)
    \/ ReceiveCanceled
    \/ \E subOk \in BOOLEAN : ReceiveError(subOk)
    \/ Dispatch
    \/ StopWaiting
    \/ Drain
    \/ \E m \in Msgs :
        \/ handleRequest_Parse(m)
        \/ \E out \in LookupOutcomes : handleRequest_Lookup(m, out)
        \/ \E out \in CallOutcomes : handleRequest_Await(m, out)
        \/ \E out \in CallOutcomes : handleRequest_BackendError(m, out)
        \/ \E code \in MsgBackendCodes, isJSON \in BOOLEAN :
              handleRequest_BackendResponse(m, code, isJSON)
        \/ \E out \in CallOutcomes : sendResponse(m, out)

\* A messenger with 1..MaxHandlersBound handlers starts on a subscription
\* whose Receive fails at most MaxRecvErrors times; no HTTP request.
InitMsg ==
    /\ MaxHandlers \in 1..MaxHandlersBound
    /\ nackable \in BOOLEAN
    /\ recvErrsLeft = MaxRecvErrors
    /\ startPc = "receive"
    /\ MsgCommon
    /\ HTTPOff
    /\ GrpOff

SpecMsg == InitMsg /\ [][NextMsg]_vars

\* A messenger with one handler starts on a subscription whose Receive can
\* fail often enough for Start to give up.
InitRestart ==
    /\ MaxHandlers = 1
    /\ nackable = FALSE
    /\ recvErrsLeft = maxRestartAttempts + 2
    /\ startPc = "receive"
    /\ MsgCommon
    /\ HTTPOff
    /\ GrpOff

SpecRestart == InitRestart /\ [][NextMsg]_vars

\* ------------------------------------------------------ endpoint group

\* The addresses of a mapping.
AddrsOf(eps) == {eps[name] : name \in DOMAIN eps}

Returned(c) == callers[c].pc \in {"returned", "completed"}

\* The caller holds an address whose completion has not been called.
Holding(c) == callers[c].pc = "returned" /\ ~callers[c].err

\* The caller's ctx is cancelled.
CancelCaller(c) ==
    /\ callers[c].pc \in {"idle", "waiting", "woken"}
    /\ ~callers[c].ctxDone
    /\ callers' = [callers EXCEPT ![c].ctxDone = TRUE]
    /\ UNCHANGED <<httpVars, msgVars, groupEndpoints, inflight>>

\* reconcileEndpoints(snapshot): replaces the mapping and wakes every caller
\* that waits (broadcast), whatever the snapshot.
reconcileEndpoints_NoBroadcast(snapshot) ==
    /\ \E c \in Callers : callers[c].pc # "absent"
    /\ groupEndpoints' = snapshot
    /\ UNCHANGED <<httpVars, msgVars, inflight, callers>>

reconcileEndpoints_ResetInflight(snapshot) ==
    /\ \E c \in Callers : callers[c].pc # "absent"
    /\ groupEndpoints' = snapshot
    /\ callers' = [c \in Callers |->
           IF callers[c].pc = "waiting"
           THEN [callers[c] EXCEPT !.pc = "woken"]
           ELSE callers[c]]
    /\ inflight' = 0
    /\ UNCHANGED <<httpVars, msgVars>>

reconcileEndpoints(snapshot) ==
    /\ \E c \in Callers : callers[c].pc # "absent"
    /\ groupEndpoints' = snapshot
    /\ callers' = [c \in Callers |->
           IF callers[c].pc = "waiting"
           THEN [callers[c] EXCEPT !.pc = "woken"]
           ELSE callers[c]]
    /\ UNCHANGED <<httpVars, msgVars, inflight>>

\* getBestAddr, called or woken: with the mapping empty the caller waits for
\* the next broadcast; otherwise an endpoint of the mapping is selected,
\* inflight is incremented and its address is returned with a completion.
getBestAddr_NoRecheck(c, name) ==
    /\ callers[c].pc \in {"idle", "woken"}
    /\ IF DOMAIN groupEndpoints = {} /\ callers[c].pc = "idle"
       THEN /\ callers' = [callers EXCEPT
                   ![c].pc = "waiting",
                   ![c].waited = TRUE]
            /\ UNCHANGED inflight
       ELSE /\ name \in DOMAIN groupEndpoints \/ DOMAIN groupEndpoints = {}
            /\ callers' = [callers EXCEPT
                   ![c].pc = "returned",
                   ![c].addr = IF name \in DOMAIN groupEndpoints
                               THEN groupEndpoints[name] ELSE "",
                   ![c].seen = groupEndpoints]
            /\ inflight' = inflight + 1
    /\ UNCHANGED <<httpVars, msgVars, groupEndpoints>>

getBestAddr_Check(c, name) ==
    /\ callers[c].pc \in {"idle", "woken"}
    /\ IF DOMAIN groupEndpoints = {}
       THEN /\ callers' = [callers EXCEPT
                   ![c].pc = "waiting",
                   ![c].waited = TRUE,
                   ![c].reblocked = @ \/ callers[c].pc = "woken"]
            /\ UNCHANGED inflight
       ELSE /\ name \in DOMAIN groupEndpoints
            /\ callers' = [callers EXCEPT
                   ![c].pc = "returned",
                   ![c].addr = groupEndpoints[name],
                   ![c].seen = groupEndpoints]
            /\ inflight' = inflight + 1
    /\ UNCHANGED <<httpVars, msgVars, groupEndpoints>>

\* getBestAddr, waiting: the caller's ctx is done and the call returns the
\* ctx's error with a completion that does nothing.
getBestAddr_Cancelled(c) ==
    /\ callers[c].pc \in {"waiting", "woken"}
    /\ callers[c].ctxDone
    /\ callers' = [callers EXCEPT ![c].pc = "returned", ![c].err = TRUE]
    /\ UNCHANGED <<httpVars, msgVars, groupEndpoints, inflight>>

\* The caller calls the completion getBestAddr returned: it decrements
\* inflight if an address was handed out.
Completion_AlwaysDecrements(c) ==
    /\ callers[c].pc = "returned"
    /\ callers' = [callers EXCEPT ![c].pc = "completed"]
    /\ inflight' = inflight - 1
    /\ UNCHANGED <<httpVars, msgVars, groupEndpoints>>

Completion(c) ==
    /\ callers[c].pc = "returned"
    /\ callers' = [callers EXCEPT ![c].pc = "completed"]
    /\ inflight' = IF callers[c].err THEN inflight ELSE inflight - 1
    /\ UNCHANGED <<httpVars, msgVars, groupEndpoints>>

\* The steps of caller c inside getBestAddr.
getBestAddr(c) ==
    \/ \E name \in EndpointNames : getBestAddr_Check(c, name)
    \/ getBestAddr_Cancelled(c)

NextGroup ==
    \/ \E snapshot \in Snapshots : reconcileEndpoints(snapshot)
    \/ \E c \in Callers :
        \/ CancelCaller(c)
        \/ getBestAddr(c)
        \/ Completion(c)

\* NumCallers goroutines call getBestAddr on a new group.
InitGroup ==
    /\ GrpCommon
    /\ callers = [c \in Callers |-> NoCall]
    /\ HTTPOff
    /\ MsgOff

SpecGroup == InitGroup /\ [][NextGroup]_vars

\* Every caller is scheduled: it calls getBestAddr and goes on once woken,
\* and a select whose ctx.Done() case stays ready takes it.
SpecGroupFair ==
    /\ SpecGroup
    /\ \A c \in Callers :
        /\ WF_vars(\E name \in EndpointNames : getBestAddr_Check(c, name))
        /\ WF_vars(getBestAddr_Cancelled(c))

\* ------------------------------------------------------------- claims

Envelope(code) == [kind |-> "envelope", code |-> code]
Backend(code) == [kind |-> "backend", code |-> code]

\* The request never had its context cancelled, every AwaitBestAddress call
\* returned an address, and at least one backend request was made.
UndisturbedRun(r) ==
    /\ pc[r] = "done"
    /\ ~ctxDone[r]
    /\ ~hist[r].awaitFailed
    /\ backendRequests[r] > 0

\* C1: whatever the backend does, pr.attempt stays in 0..maxRetries and at
\* most maxRetries + 1 requests are sent to the backend for one inbound
\* request.
C1_RetryBound ==
    \A r \in Reqs :
        /\ attempt[r] \in 0..maxRetries
        /\ backendRequests[r] <= maxRetries + 1

C1_Witness ==
    \E r \in Reqs :
        /\ pc[r] = "done"
        /\ maxRetries >= 2
        /\ attempt[r] = maxRetries
        /\ backendRequests[r] = maxRetries + 1

\* C2: when every attempt is answered with a retryable status code and the
\* context is never cancelled, exactly maxRetries + 1 backend requests are
\* sent and the client gets the last backend response with the backend's
\* status code, not an error envelope.
C2_RetryableExhausted ==
    \A r \in Reqs :
        (UndisturbedRun(r) /\ hist[r].onlyRetryable) =>
            /\ backendRequests[r] = maxRetries + 1
            /\ isRetryCode(status[r])
            /\ responses[r] = << Backend(status[r]) >>

C2_Witness ==
    \E r \in Reqs :
        /\ UndisturbedRun(r)
        /\ hist[r].onlyRetryable
        /\ maxRetries >= 2
        /\ responses[r] = << Backend(StatusInternalServerError) >>

\* C3: when every attempt fails with a transport error and the context is
\* never cancelled, exactly maxRetries + 1 attempts are made and the client
\* gets a 502 error envelope; and a 502 envelope is only ever written when
\* the final attempt ended in a transport error.
C3_TransportExhausted ==
    \A r \in Reqs :
        /\ (UndisturbedRun(r) /\ hist[r].onlyTransport) =>
              /\ backendRequests[r] = maxRetries + 1
              /\ responses[r] = << Envelope(StatusBadGateway) >>
        /\ (\E i \in DOMAIN responses[r] :
                responses[r][i] = Envelope(StatusBadGateway)) =>
              hist[r].last = "transport"

C3_Witness ==
    \E r \in Reqs :
        /\ UndisturbedRun(r)
        /\ hist[r].onlyTransport
        /\ maxRetries >= 2
        /\ responses[r] = << Envelope(StatusBadGateway) >>

\* C4 as stated: AwaitBestAddress is called at most once per inbound request
\* and every attempt goes to the address selected for the first attempt.
C4_SameAddress ==
    \A r \in Reqs :
        /\ awaitCalls[r] <= 1
        /\ \A i \in DOMAIN stack[r] : stack[r][i].addr = hist[r].firstAddr

\* C4 amended: every attempt, the first and each retry, makes its own
\* AwaitBestAddress call, so AwaitBestAddress is called once per attempt and
\* at most maxRetries + 1 times per inbound request.
C4_SelectionPerAttempt ==
    \A r \in Reqs :
        /\ awaitCalls[r] <= maxRetries + 1
        /\ pc[r] = "await" => awaitCalls[r] = attempt[r]
        /\ pc[r] \in {"proxy", "unwind"} => awaitCalls[r] = attempt[r] + 1
        /\ Len(stack[r]) <= awaitCalls[r]

\* A retry is in flight to another address than the first attempt's.
C4_Witness ==
    \E r \in Reqs :
        /\ pc[r] = "proxy"
        /\ attempt[r] = 1
        /\ awaitCalls[r] = 2
        /\ stack[r][2].addr # hist[r].firstAddr

\* C5 as stated: the number of AwaitBestAddress calls equals the number of
\* requests sent to the backend.
C5_CallsEqualRequests ==
    \A r \in Reqs :
        pc[r] = "done" => awaitCalls[r] = backendRequests[r]

\* C5 amended: the number of AwaitBestAddress calls that returned an address
\* equals the number of requests sent to the backend, and the number of
\* calls is one more exactly when the last call returned an error; there is
\* no call when parsing, lookup or scaling fails, one call per attempt
\* otherwise.
C5_SuccessfulCallsEqualRequests ==
    \A r \in Reqs :
        pc[r] = "done" =>
            /\ Len(cbCalls[r]) = backendRequests[r]
            /\ awaitCalls[r] =
                  backendRequests[r] + (IF hist[r].awaitFailed THEN 1 ELSE 0)
            /\ hist[r].scale # "ok" => awaitCalls[r] = 0
            /\ hist[r].scale = "ok" => awaitCalls[r] = attempt[r] + 1

\* A retry whose AwaitBestAddress call failed: two calls, one backend request.
C5_Witness ==
    \E r \in Reqs :
        /\ pc[r] = "done"
        /\ hist[r].awaitFailed
        /\ awaitCalls[r] = 2
        /\ backendRequests[r] = 1

AllCallbacksCalledOnce(r) ==
    \A i \in DOMAIN cbCalls[r] : cbCalls[r][i] = 1

\* C6: every completion callback AwaitBestAddress returned is called exactly
\* once by the time the handler is done, never twice, and only after the last
\* backend attempt of the request: once a callback has been called the
\* request is returning, and a returning request makes no further call of
\* AwaitBestAddress and sends nothing more to the backend.
C6_CallbackExactlyOnce ==
    /\ [](\A r \in Reqs :
            /\ \A i \in DOMAIN cbCalls[r] : cbCalls[r][i] <= 1
            /\ (\E i \in DOMAIN cbCalls[r] : cbCalls[r][i] > 0) =>
                  pc[r] \in {"unwind", "done"}
            /\ pc[r] = "done" => AllCallbacksCalledOnce(r))
    /\ [][\A r \in Reqs :
            pc[r] \in {"unwind", "done"} =>
                /\ pc'[r] \in {"unwind", "done"}
                /\ backendRequests'[r] = backendRequests[r]
                /\ awaitCalls'[r] = awaitCalls[r]]_vars

\* Done after a context cancellation, three callbacks each called once.
C6_Witness ==
    \E r \in Reqs :
        /\ pc[r] = "done"
        /\ ctxDone[r]
        /\ Len(cbCalls[r]) = 3
        /\ AllCallbacksCalledOnce(r)

ActiveRequests(m) ==
    {r \in Reqs : body[r] = m /\ pc[r] \in {"lookup", "scale", "await",
                                           "proxy", "unwind"}}

\* C7: the gauge of a model counts the requests for it that have been parsed
\* and have not returned from ServeHTTP: +1 once after a successful parse,
\* -1 once on return on every exit path, nothing for a request that does not
\* parse, and back at 0 when every request has completed.
C7_GaugeCountsActive ==
    \A m \in Models : gauge[m] = Cardinality(ActiveRequests(m))

\* Two requests were counted at the same time and both are done, one after
\* exhausting its retries, one after a failed host wait.
C7_Witness ==
    /\ \A r \in Reqs : pc[r] = "done"
    /\ \A m \in Models : gauge[m] = 0
    /\ \E r1, r2 \in Reqs :
        /\ r1 # r2
        /\ body[r1] # BadBody /\ body[r2] # BadBody
        /\ attempt[r1] = maxRetries /\ backendRequests[r1] = maxRetries + 1
        /\ hist[r2].awaitFailed

\* C8: parse, LookupModel, ScaleAtLeastOneReplica, AwaitBestAddress and the
\* forward run in this order and each runs only if the one before succeeded;
\* a parse failure is answered 400, an unknown model 404, a LookupModel or
\* scale error 500, and then nothing later runs.
C8_PipelineOrder ==
    \A r \in Reqs :
        /\ lookupCalls[r] > 0 => body[r] # BadBody
        /\ scaleCalls[r] > 0 => hist[r].lookup = "found"
        /\ awaitCalls[r] > 0 => hist[r].scale = "ok"
        /\ backendRequests[r] > 0 => awaitCalls[r] > 0
        /\ lookupCalls[r] <= 1 /\ scaleCalls[r] <= 1
        /\ (body[r] = BadBody /\ pc[r] = "done") =>
              /\ responses[r] = << Envelope(StatusBadRequest) >>
              /\ lookupCalls[r] = 0
        /\ hist[r].lookup = "missing" =>
              /\ responses[r] = << Envelope(StatusNotFound) >>
              /\ pc[r] = "done" /\ scaleCalls[r] = 0
        /\ hist[r].lookup = "err" =>
              /\ responses[r] = << Envelope(StatusInternalServerError) >>
              /\ pc[r] = "done" /\ scaleCalls[r] = 0
        /\ hist[r].scale = "err" =>
              /\ responses[r] = << Envelope(StatusInternalServerError) >>
              /\ pc[r] = "done" /\ awaitCalls[r] = 0

\* An unknown model: answered 404 after one lookup and nothing else.
C8_Witness ==
    \E r \in Reqs :
        /\ pc[r] = "done"
        /\ hist[r].lookup = "missing"
        /\ lookupCalls[r] = 1
        /\ responses[r] = << Envelope(StatusNotFound) >>

\* C9: once an attempt has been answered with a status code that is not
\* retryable, that response is passed to the client and neither
\* AwaitBestAddress nor the backend is called again, whatever pr.attempt is.
C9_NonRetryableTerminal ==
    \A r \in Reqs :
        hist[r].nonRetry.set =>
            /\ pc[r] \in {"unwind", "done"}
            /\ ~isRetryCode(status[r])
            /\ responses[r] = << Backend(status[r]) >>
            /\ backendRequests[r] = hist[r].nonRetry.reqs
            /\ awaitCalls[r] = hist[r].nonRetry.calls

\* A 400 on the second attempt with retries left.
C9_Witness ==
    \E r \in Reqs :
        /\ pc[r] = "done"
        /\ hist[r].nonRetry.set
        /\ attempt[r] = 1 /\ maxRetries >= 2
        /\ status[r] = StatusBadRequest

\* C10: when an attempt ends (with a response or a transport error) and the
\* request's context is done, the handler makes no further AwaitBestAddress
\* call and sends no further backend request, even with attempt < maxRetries.
C10_NoRetryAfterCancel ==
    \A r \in Reqs :
        hist[r].cancelEnd.set =>
            /\ pc[r] \in {"unwind", "done"}
            /\ awaitCalls[r] = hist[r].cancelEnd.calls
            /\ backendRequests[r] = hist[r].cancelEnd.reqs

\* Cancelled during the second attempt, which then failed, retries left.
C10_Witness ==
    \E r \in Reqs :
        /\ pc[r] = "done"
        /\ hist[r].cancelEnd.set
        /\ hist[r].last = "transport"
        /\ attempt[r] = 1 /\ attempt[r] < maxRetries

\* Handlers that hold a slot of sem: running, or stopped by a panic.
SlotHolders == {m \in Msgs : Running(m) \/ handlers[m].pc = "panicked"}

\* C11: at most MaxHandlers handleRequest goroutines run at any moment; every
\* one of them holds a slot of sem from before its start to its return.
C11_HandlersBounded ==
    /\ Cardinality({m \in Msgs : Running(m)}) <= MaxHandlers
    /\ sem = Cardinality(SlotHolders) + n
    /\ sem \in 0..MaxHandlers

\* All slots are taken and Start waits for one with a message in hand.
C11_Witness ==
    /\ startPc = "acquire"
    /\ sem = MaxHandlers
    /\ Cardinality({m \in Msgs : Running(m)}) = MaxHandlers
    /\ handlers[msg].pc = "received"

\* C12 as stated: when Start returns because its context was cancelled, no
\* dispatched handler is still running.
C12_DrainBeforeReturn ==
    (startPc = "returned" /\ startErr \in {"Canceled", "nil"}) =>
        \A m \in Msgs : ~Running(m)

\* C13: a message is Acked only after a successful publish and then exactly
\* once; after a failed publish it is never Acked and is Nacked exactly when
\* it is nackable; it is never both Acked and Nacked, nor either twice.
C13_AckIffPublished ==
    \A m \in Msgs :
        /\ handlers[m].acks <= 1 /\ handlers[m].nacks <= 1
        /\ handlers[m].acks + handlers[m].nacks <= 1
        /\ handlers[m].acks = 1 <=> handlers[m].publish = "ok"
        /\ handlers[m].nacks = 1 <=>
              (handlers[m].publish = "failed" /\ nackable)
        /\ handlers[m].pc = "done" <=> handlers[m].publish # "none"

\* One message Acked, another Nacked after a failed publish.
C13_Witness ==
    \E m1, m2 \in Msgs :
        /\ handlers[m1].pc = "done" /\ handlers[m1].acks = 1
        /\ handlers[m1].publish = "ok"
        /\ handlers[m2].pc = "done" /\ handlers[m2].nacks = 1
        /\ handlers[m2].publish = "failed" /\ handlers[m2].acks = 0

\* C14 as stated: a message whose published response has a non-2xx status
\* has incremented the consecutive-error counter and is Acked, whether the
\* status is the messenger's own or the backend's.
C14_NonSuccessCounts ==
    \A m \in Msgs :
        (handlers[m].publish = "ok" /\ handlers[m].status >= 300) =>
            /\ handlers[m].incs >= 1
            /\ handlers[m].acks = 1

\* C15 as stated: the subscription is recreated at most maxRestartAttempts
\* times in a row.
C15_RestartBound ==
    restartAttempt <= maxRestartAttempts

\* C16: a handler never runs on the receive context: whether or not the
\* context of Start is done, the context of a dispatched handler is not, and
\* no call of its pipeline (address wait, backend request, publish) fails on
\* the context.
C16_HandlersDetached ==
    \A m \in Msgs :
        /\ handlers[m].ctx \in {"none", "background"}
        /\ ~HandlerCtxDone(m)
        /\ ~handlers[m].ctxErr

\* Start has returned after the cancellation; a handler that was waiting for
\* an address at the cancellation got one, got the backend's 200, published
\* it and Acked.
C16_Witness ==
    /\ recvCtxDone
    /\ startPc = "returned"
    /\ \E m \in Msgs :
        /\ handlers[m].atStop
        /\ handlers[m].pc = "done"
        /\ handlers[m].backend /\ handlers[m].status = StatusOK
        /\ handlers[m].acks = 1

\* C17: callers of getBestAddr that wait on an empty group are all woken by
\* a reconcileEndpoints with endpoints: every caller whose ctx is never
\* cancelled returns an address once the mapping stays non-empty; none
\* stays blocked and no wake-up is lost.
C17_WaitersUnblocked == \A c \in Callers :
    (<>[](DOMAIN groupEndpoints # {}) /\ []~callers[c].ctxDone) =>
        <>(Returned(c) /\ ~callers[c].err /\ callers[c].addr # "")

C17_Witness == \A c \in Callers :
    /\ callers[c].waited
    /\ Returned(c)
    /\ ~callers[c].err
    /\ ~callers[c].ctxDone

\* The step is caller c's return from getBestAddr.
Returns(c) == ~Returned(c) /\ Returned(c)'

\* C18: a getBestAddr call that waits on an empty group and whose ctx is
\* cancelled, before the call or while it waits, returns an error; an error
\* is returned only for a cancelled ctx, no address comes with it, and
\* neither the failed call nor the completion it returned changes inflight.
C18_CancelReturnsError ==
    /\ \A c \in Callers : callers[c].ctxDone ~> Returned(c)
    /\ [][\A c \in Callers :
            /\ (Returns(c) /\ DOMAIN groupEndpoints = {}) =>
                   (callers'[c].err /\ callers[c].ctxDone)
            /\ callers'[c].err =>
                   (callers'[c].ctxDone /\ callers'[c].addr = "")
            /\ (callers'[c] # callers[c] /\ callers'[c].err) =>
                   inflight' = inflight]_vars

C18_Witness == \E c, d \in Callers :
    /\ callers[c].pc = "completed"
    /\ callers[c].err
    /\ Holding(d)
    /\ inflight = 1

\* C19: inflight counts the addresses handed out whose completion has not
\* been called: each successful getBestAddr adds one, each completion takes
\* one away, reconcileEndpoints leaves it alone; it is never negative and is
\* back at its initial value once every completion has been called.
C19_InflightBalanced ==
    /\ inflight = Cardinality({c \in Callers : Holding(c)})
    /\ inflight >= 0
    /\ (\A c \in Callers : callers[c].pc = "completed") => inflight = 0

C19_Witness ==
    /\ \A c \in Callers : callers[c].pc = "completed" /\ ~callers[c].err
    /\ groupEndpoints = NoEndpoints
    /\ inflight = 0

\* C20: getBestAddr returns an address only while the mapping is not empty,
\* and the address is one of the mapping installed by the latest
\* reconcileEndpoints, which is one snapshot; a reconcileEndpoints wakes
\* every waiting caller, and a woken caller that finds the mapping empty
\* waits again.
C20_AddressFromMapping ==
    [][\A c \in Callers :
          /\ (Returns(c) /\ ~callers'[c].err) =>
                /\ DOMAIN groupEndpoints # {}
                /\ callers'[c].seen = groupEndpoints
                /\ callers'[c].seen \in Snapshots
                /\ callers'[c].addr \in AddrsOf(groupEndpoints)
          /\ (callers[c].pc = "waiting" /\ callers'[c].pc = "woken") =>
                \A d \in Callers : callers'[d].pc # "waiting"
          /\ (callers[c].pc = "woken" /\ callers'[c].pc # "woken"
                /\ DOMAIN groupEndpoints = {} /\ ~callers[c].ctxDone) =>
                callers'[c].pc = "waiting"]_vars

C20_Witness == \E c \in Callers :
    /\ callers[c].reblocked
    /\ Returned(c)
    /\ ~callers[c].err
    /\ callers[c].addr \in AddrsOf(callers[c].seen)

\* C21: consecutiveErrors counts failed messages: no message raises it by
\* more than one, so it is at most the number of messages whose handling
\* failed, and it is 0 when the handlers that have finished all published a
\* response with a status below 300.
C21_CountsFailedMessages ==
    /\ \A m \in Msgs : handlers[m].incs <= 1
    /\ consecutiveErrors <= Cardinality({m \in Msgs : handlers[m].incs >= 1})
    /\ (\A m \in Msgs : handlers[m].pc \in {"queued", "received", "done"}
           /\ (handlers[m].pc = "done" =>
                  handlers[m].publish = "ok" /\ handlers[m].status < 300
                     /\ handlers[m].valid))
          => consecutiveErrors = 0

\* C22: a message that fails parsing, for whatever reason, gets as far as
\* sendResponse with status 400 and an error body, its handler returns
\* normally, and once the response is published the message is acked.
C22_ParseFailureAnswered == \A m \in Msgs :
    handlers[m].kind \in {"badEnvelope", "badBody"} =>
        /\ handlers[m].pc # "panicked"
        /\ handlers[m].pc \in {"send", "done"} =>
              (handlers[m].status = StatusBadRequest /\ ~handlers[m].backend)
        /\ (handlers[m].pc = "done" /\ handlers[m].publish = "ok") =>
              handlers[m].acks = 1

\* C23: a ServeHTTP call that has returned has written exactly one response
\* to the client, an error envelope or the backend's response.
C23_ExactlyOneResponse == \A r \in Reqs :
    pc[r] = "done" => Len(responses[r]) = 1

\* C24: an inbound request holds at most one address whose completion has
\* not been called, over all its attempts.
C24_OneHandoutHeld == \A r \in Reqs : Len(stack[r]) <= 1

\* C25: no message Receive returned is left without a handler: Start never
\* leaves the receive loop with a message in its hand, and a handler that
\* has returned has acked or nacked its message.
C25_NoMessageDropped == \A m \in Msgs :
    /\ handlers[m].pc # "dropped"
    /\ handlers[m].pc = "done" => handlers[m].acks + handlers[m].nacks >= 1

====
